---- MODULE Spec2Model ----
(***************************************************************************)
(* A model of trove: the URL cache (cache.rs), the Humble Trove feed       *)
(* (trove_feed.rs) and the game library (trove.rs).                        *)
(***************************************************************************)
EXTENDS Naturals, Sequences, FiniteSets, TLC

VARIABLES
    remote,     \* the network: locator -> Some(payload), or None when a fetch fails
    files,      \* the cache directory: file name -> Some(content) or None
    fetches,    \* locator -> number of reqwest::get calls made for it
    ret,        \* the outcome of the last call on the cache
    served,     \* locator -> the bytes retrieve returned since its entry was last removed
    since,      \* locator -> fetches made by the retrieves counted in served
    inval,      \* locator -> invalidate was the last call on it
    now,        \* Utc::now(), in days
    asm,        \* the call of TroveFeed::new in progress, and how the last one ended
    feed,       \* the TroveFeed the program holds: Some([json, feed]) or None
    store,      \* the ~/.trove directory: file name -> Some(text) or None
    diffOut,    \* what the last TroveFeed::diff printed: Some([..]) or None
    trove,      \* the Trove struct: directories, counts and the games
    rootDir,    \* the root directory: file name -> Some(content) or None
    dlDir,      \* the downloads directory: file name -> Some(content) or None
    last,       \* the last call on the library: its inputs, the state before, its result
    callers,    \* the threads inside Cache::retrieve: caller -> where it is and what it holds
    dirs,       \* the directories that exist
    made,       \* the last call of Trove::new: its paths, how it ended, the Trove it gave
    trove_dir,  \* the library files of ~/.trove: file name -> Some(library) or None
    crashed,    \* the installers a move_downloads was killed on, copied and not yet removed
    stale       \* the chunk locators whose cache entry was fetched before the root's was

cacheVars == <<remote, files, fetches, ret, served, since, inval>>

feedVars == <<now, asm, feed, store, diffOut>>

libVars == <<trove, rootDir, dlDir, last>>

threadVars == <<callers>>

dirVars == <<dirs, made, trove_dir>>

ghostVars == <<crashed, stale>>

vars ==
    <<remote, files, fetches, ret, served, since, inval, now, asm, feed, store, diffOut,
      trove, rootDir, dlDir, last, callers, dirs, made, trove_dir,
      crashed, stale>>

-----------------------------------------------------------------------------
(* Option values: a missing file, a failed fetch.                          *)

None == <<>>

Some(x) == <<x>>

IsNone(o) == Len(o) = 0

IsSome(o) == Len(o) = 1

-----------------------------------------------------------------------------
(* Bounds.                                                                 *)

\* reqwest::get calls counted per locator
MaxFetch == 3

\* distinct one-byte payloads the network can serve besides [1,2,3]
MaxByte == 1

\* chunks a root document can announce
MaxChunks == 2

\* products in one chunk
MaxChunkLen == 2

\* products in the newly-added list
MaxNewly == 1

\* products in a saved feed that is diffed
MaxListLen == 3

\* days the clock runs
MaxTime == 2

\* invalidate-and-retry cycles counted in one call of TroveFeed::new
MaxCycles == 2

-----------------------------------------------------------------------------
(* cache.rs                                                                *)

\* trove_feed.rs, TroveCache::trove_url
trove_url == "https://www.humblebundle.com/subscription/trove"

\* trove_feed.rs, TroveCache::chunk_url
chunk_url(i) ==
    "https://www.humblebundle.com/api/v1/trove/chunk?property=start&direction=desc&index="
        \o ToString(i)

\* The locators of the feed, and those the cache is exercised with on its own.
Locators == {trove_url} \cup {chunk_url(i) : i \in 0..(MaxChunks - 1)}

CacheLocators == {trove_url, chunk_url(0)}

\* Byte payloads: vectors of bytes.
Payloads == {<<1, 2, 3>>} \cup {<<3 + b>> : b \in 1..MaxByte}

\* sha256(url): the hex digest of the locator. Distinct locators get distinct
\* digests (collision resistance), the same locator the same digest.
sha256(url) == "sha256:" \o url

\* The sidecar's name, format!("{}.url", &hash).
url_file(hash) == hash \o ".url"

CacheFiles == {sha256(u) : u \in Locators} \cup {url_file(sha256(u)) : u \in Locators}

\* Path::exists, fs::write, fs::read, fs::remove_file on the cache directory.
exists(dir, name) == IsSome(dir[name])

fs_write(dir, name, content) == [dir EXCEPT ![name] = Some(content)]

fs_read(dir, name) == dir[name][1]

fs_remove_file(dir, name) == [dir EXCEPT ![name] = None]

\* A retrieve that fetches whether or not the blob is there.
retrieve_always_fetches(dir, net, url) ==
    LET hash == sha256(url)
        cached == hash
    IN  IF IsNone(net[url])
        THEN [dir |-> dir, status |-> "panic", bytes |-> None, fetched |-> 1]
        ELSE LET buffer == net[url][1]
                 d1 == fs_write(dir, cached, buffer)
                 d2 == fs_write(d1, url_file(hash), url)
             IN  [dir |-> d2, status |-> "ok",
                  bytes |-> Some(fs_read(d2, cached)), fetched |-> 1]

\* Cache::retrieve. The outcome: the directory afterwards, how the call ended
\* ("ok", or "panic" from reqwest::get(url).unwrap() and the status assert),
\* the bytes returned and the number of reqwest::get calls made.
retrieve(dir, net, url) ==
    LET hash == sha256(url)
        cached == hash
    IN  IF ~exists(dir, cached)
        THEN IF IsNone(net[url])
             THEN [dir |-> dir, status |-> "panic", bytes |-> None, fetched |-> 1]
             ELSE LET buffer == net[url][1]
                      d1 == fs_write(dir, cached, buffer)
                      d2 == fs_write(d1, url_file(hash), url)
                  IN  [dir |-> d2, status |-> "ok",
                       bytes |-> Some(fs_read(d2, cached)), fetched |-> 1]
        ELSE [dir |-> dir, status |-> "ok",
              bytes |-> Some(fs_read(dir, cached)), fetched |-> 0]

\* What a write of the sidecar that fails part-way leaves in the file: a
\* strict prefix of the locator. Every locator begins with "https://".
SidecarPrefixes == {"", "h", "htt"}

\* The ways the two fs::write calls of retrieve fail. fs::write is
\* File::create followed by write_all: the blob cannot be created, which
\* leaves no file; the blob's write fails after n bytes of the buffer, which
\* leaves a file with those bytes; the sidecar cannot be created, which
\* leaves the whole blob and the sidecar as it was; the sidecar's write
\* fails, which leaves the whole blob and a sidecar with part of the locator.
WriteFaults(net, url) ==
    IF IsNone(net[url]) THEN {}
    ELSE LET len == Len(net[url][1])
         IN  {[at |-> "blob_create", n |-> 0, text |-> ""]}
             \cup {[at |-> "blob_write", n |-> k, text |-> ""] : k \in 0..(len - 1)}
             \cup {[at |-> "sidecar_create", n |-> len, text |-> ""]}
             \cup {[at |-> "sidecar_write", n |-> len, text |-> t] : t \in SidecarPrefixes}

\* Cache::retrieve with no blob and a fetch that succeeds, one of its two
\* fs::write calls failing as fault says. The ? returns the error.
retrieve_write_fails(dir, net, url, fault) ==
    LET hash == sha256(url)
        cached == hash
        buffer == net[url][1]
        d1 == IF fault.at = "blob_create" THEN dir
              ELSE fs_write(dir, cached, SubSeq(buffer, 1, fault.n))
        d2 == IF fault.at = "sidecar_write"
              THEN fs_write(d1, url_file(hash), fault.text)
              ELSE d1
    IN  [dir |-> d2, status |-> "err", bytes |-> None, fetched |-> 1]

\* A force_retrieve that forgets to remove the blob.
force_retrieve_keeps_blob(dir, net, url) == retrieve(dir, net, url)

\* Cache::force_retrieve
force_retrieve(dir, net, url) ==
    LET hash == sha256(url)
        cached == hash
        d1 == IF exists(dir, cached) THEN fs_remove_file(dir, cached) ELSE dir
    IN  retrieve(d1, net, url)

\* Cache::invalidate(url), the call TroveCache::invalidate makes: removes the
\* stored entry (blob and sidecar) when there is one, and does nothing otherwise.
invalidate(dir, url) ==
    LET hash == sha256(url)
    IN  fs_remove_file(fs_remove_file(dir, hash), url_file(hash))

-----------------------------------------------------------------------------
(* trove_feed.rs: products and feeds.                                      *)

\* A Product of the feed: the fields the program reads. downloads maps a
\* platform key to the path components of its url.web.
Game(mn, hn, date, file) ==
    [machine_name |-> mn, human_name |-> hn, date_added |-> date,
     downloads |-> [windows |-> <<"https://dl.humble.com", file>>]]

\* The products the feeds are made of: two share a machine_name and an
\* installer (an entry renamed between chunks), two a display name up to case.
G1 == Game("game1", "Alpha", 1, "game1.exe")

G2 == Game("game2", "alpha", 2, "game2.exe")

G3 == Game("game1", "Beta", 3, "game1.exe")

Products == {G1, G2, G3}

\* Sequences over S of length at most n.
SeqsUpTo(S, n) == UNION {[1..k -> S] : k \in 0..n}

\* str::to_lowercase on the display names.
to_lowercase(s) ==
    CASE s = "Alpha" -> "alpha"
      [] s = "alpha" -> "alpha"
      [] s = "Beta" -> "beta"
      [] OTHER -> s

\* The order of String (Ord) on the lower-cased display names, as a rank.
StringRank(s) ==
    CASE s = "alpha" -> 1
      [] s = "beta" -> 2
      [] OTHER -> 3

\* ProductVec::contains: a product of the list has this human_name.
contains(products, human_name) ==
    \E i \in 1..Len(products) : products[i].human_name = human_name

\* Vec<String>::contains
vec_contains(v, x) == \E i \in 1..Len(v) : v[i] = x

\* slice::sort_by_key is stable: an element goes after those whose key is not greater.
InsertByRank(sorted, p, rank, rankOfP) ==
    LET n == Cardinality({i \in 1..Len(sorted) : rank[i] <= rankOfP})
    IN  SubSeq(sorted, 1, n) \o <<p>> \o SubSeq(sorted, n + 1, Len(sorted))

\* A sort by the display name as it is written, capitals first.
alphabetically_case_sensitive(products) ==
    LET key(p) == CASE p.human_name = "Alpha" -> 1
                    [] p.human_name = "Beta" -> 2
                    [] OTHER -> 3
        F[i \in 0..Len(products)] ==
            IF i = 0 THEN <<>>
            ELSE InsertByRank(F[i - 1], products[i],
                              [j \in 1..(i - 1) |-> key(F[i - 1][j])], key(products[i]))
    IN  F[Len(products)]

\* Feed::alphabetically: sort_by_key(|p| p.human_name.to_lowercase())
alphabetically(products) ==
    LET key(p) == StringRank(to_lowercase(p.human_name))
        F[i \in 0..Len(products)] ==
            IF i = 0 THEN <<>>
            ELSE InsertByRank(F[i - 1], products[i],
                              [j \in 1..(i - 1) |-> key(F[i - 1][j])], key(products[i]))
    IN  F[Len(products)]

\* Reverse of a sequence.
reverse(s) == [i \in 1..Len(s) |-> s[Len(s) + 1 - i]]

\* Feed::newest_to_oldest: sort_by_key(|p| p.date_added), then reverse.
newest_to_oldest(products) ==
    LET F[i \in 0..Len(products)] ==
            IF i = 0 THEN <<>>
            ELSE InsertByRank(F[i - 1], products[i],
                              [j \in 1..(i - 1) |-> F[i - 1][j].date_added],
                              products[i].date_added)
    IN  reverse(F[Len(products)])

\* A dedupe that compares display names instead of machine names.
retain_first_by_human_name(standard_products) ==
    LET F[i \in 0..Len(standard_products)] ==
            IF i = 0 THEN [kept |-> <<>>, products |-> <<>>]
            ELSE LET p == standard_products[i]
                 IN  IF ~vec_contains(F[i - 1].products, p.human_name)
                     THEN [kept |-> Append(F[i - 1].kept, p),
                           products |-> Append(F[i - 1].products, p.human_name)]
                     ELSE F[i - 1]
    IN  F[Len(standard_products)]

\* "Dedup the list": standard_products.retain(..) with the machine names seen
\* so far in products. The result: the products kept and the names seen.
retain_first(standard_products) ==
    LET F[i \in 0..Len(standard_products)] ==
            IF i = 0 THEN [kept |-> <<>>, products |-> <<>>]
            ELSE LET p == standard_products[i]
                 IN  IF ~vec_contains(F[i - 1].products, p.machine_name)
                     THEN [kept |-> Append(F[i - 1].kept, p),
                           products |-> Append(F[i - 1].products, p.machine_name)]
                     ELSE F[i - 1]
    IN  F[Len(standard_products)]

\* A merge in which a newly added product takes the place of the product
\* seen before it under the same machine name.
merge_newly_added_last_wins(deduped, newly_added) ==
    LET F[i \in 0..Len(newly_added)] ==
            IF i = 0 THEN deduped
            ELSE LET p == newly_added[i]
                     kept == F[i - 1].kept
                 IN  IF ~vec_contains(F[i - 1].products, p.machine_name)
                     THEN [kept |-> Append(kept, p),
                           products |-> Append(F[i - 1].products, p.machine_name)]
                     ELSE [F[i - 1] EXCEPT !.kept =
                              [j \in 1..Len(kept) |->
                                  IF kept[j].machine_name = p.machine_name
                                  THEN p ELSE kept[j]]]
    IN  F[Len(newly_added)].kept

\* newly_added.iter().for_each(..): a newly added product is pushed when its
\* machine name has not been seen.
merge_newly_added(deduped, newly_added) ==
    LET F[i \in 0..Len(newly_added)] ==
            IF i = 0 THEN deduped
            ELSE LET p == newly_added[i]
                 IN  IF ~vec_contains(F[i - 1].products, p.machine_name)
                     THEN [kept |-> Append(F[i - 1].kept, p),
                           products |-> Append(F[i - 1].products, p.machine_name)]
                     ELSE F[i - 1]
    IN  F[Len(newly_added)].kept

\* serde_json::from_value into Feed: the fields of the struct.
from_value(root) ==
    [newly_added |-> root.newlyAdded,
     standard_products |-> root.standardProducts,
     countdown_timer_options |->
        [next_addition_time |-> root.countdownTimerOptions.nextAdditionTime]]

\* The text of a JSON document is a sequence of tokens: "{" "}" "[" "]",
\* "k" and the name of a member, "s" and a string, "n" and the digits of a
\* number.

\* The numbers of the documents, whose digits the parser reads.
Numbers == 0..(MaxTime + MaxChunks + 3)

\* The member names of the documents in the order of the map of a Value
\* (BTreeMap: sorted).
KeyOrder ==
    <<"chunks", "countdownTimerOptions", "date_added", "downloads", "human_name",
      "linux", "mac", "machine_name", "newlyAdded", "nextAdditionTime",
      "standardProducts", "windows">>

\* What the value of a member is in the documents of the site.
Kinds ==
    [chunks |-> "number", date_added |-> "number", nextAdditionTime |-> "number",
     human_name |-> "string", machine_name |-> "string",
     newlyAdded |-> "products", standardProducts |-> "products",
     countdownTimerOptions |-> "object", downloads |-> "object",
     windows |-> "path", mac |-> "path", linux |-> "path"]

ValueKind(key) == IF key \in DOMAIN Kinds THEN Kinds[key] ELSE "unknown"

\* The serializer of serde_json: a value, the members of an object (keys are
\* its names in the order of KeyOrder) from the i-th on, the elements of an
\* array.
RECURSIVE value_text(_, _), members_text(_, _, _), elements_text(_, _)
value_text(kind, v) ==
    CASE kind = "number" -> <<"n", ToString(v)>>
      [] kind = "string" -> <<"s", v>>
      [] kind = "path" -> <<"[">> \o elements_text("string", v) \o <<"]">>
      [] kind = "products" -> <<"[">> \o elements_text("object", v) \o <<"]">>
      [] kind = "object" ->
            LET names == DOMAIN v
            IN  <<"{">> \o members_text(v, SelectSeq(KeyOrder, LAMBDA k : k \in names), 1)
                      \o <<"}">>

members_text(obj, keys, i) ==
    IF i > Len(keys) THEN <<>>
    ELSE <<"k", keys[i]>> \o value_text(ValueKind(keys[i]), obj[keys[i]])
                          \o members_text(obj, keys, i + 1)

elements_text(kind, vs) ==
    IF Len(vs) = 0 THEN <<>>
    ELSE value_text(kind, Head(vs)) \o elements_text(kind, Tail(vs))

\* serde_json::to_string_pretty of the root Value: the text of the document.
to_string_pretty(root) == value_text("object", root)

\* The parser found no value.
NoParse == [ok |-> FALSE, value |-> <<>>, next |-> 0]

\* The parser of serde_json at the i-th token of the text t: a value of the
\* kind expected, the members of an object up to its "}", the elements of an
\* array up to its "]". next is the token after what was read.
RECURSIVE parse_value(_, _, _), parse_members(_, _, _), parse_elements(_, _, _, _)
parse_value(kind, t, i) ==
    IF i > Len(t) THEN NoParse
    ELSE CASE kind = "number" ->
                IF t[i] = "n" /\ i + 1 <= Len(t)
                THEN LET read == {n \in Numbers : ToString(n) = t[i + 1]}
                     IN  IF read = {} THEN NoParse
                         ELSE [ok |-> TRUE, next |-> i + 2,
                               value |-> CHOOSE n \in read : TRUE]
                ELSE NoParse
           [] kind = "string" ->
                IF t[i] = "s" /\ i + 1 <= Len(t)
                THEN [ok |-> TRUE, next |-> i + 2, value |-> t[i + 1]]
                ELSE NoParse
           [] kind = "path" ->
                IF t[i] = "[" THEN parse_elements("string", t, i + 1, <<>>) ELSE NoParse
           [] kind = "products" ->
                IF t[i] = "[" THEN parse_elements("object", t, i + 1, <<>>) ELSE NoParse
           [] kind = "object" ->
                IF t[i] = "{" THEN parse_members(t, i + 1, <<>>) ELSE NoParse
           [] OTHER -> NoParse

parse_members(t, i, obj) ==
    IF i > Len(t) THEN NoParse
    ELSE IF t[i] = "}" THEN [ok |-> TRUE, next |-> i + 1, value |-> obj]
    ELSE IF t[i] = "k" /\ i + 1 <= Len(t)
    THEN LET v == parse_value(ValueKind(t[i + 1]), t, i + 2)
         IN  IF v.ok THEN parse_members(t, v.next, obj @@ (t[i + 1] :> v.value))
             ELSE NoParse
    ELSE NoParse

parse_elements(kind, t, i, vs) ==
    IF i > Len(t) THEN NoParse
    ELSE IF t[i] = "]" THEN [ok |-> TRUE, next |-> i + 1, value |-> vs]
    ELSE LET v == parse_value(kind, t, i)
         IN  IF v.ok THEN parse_elements(kind, t, v.next, Append(vs, v.value))
             ELSE NoParse

\* serde_json::from_str into a Value: the whole text is one document, or
\* the error of a text that ends early or holds something else.
from_str_value(text) ==
    LET v == parse_value("object", text, 1)
    IN  IF v.ok /\ v.next = Len(text) + 1
        THEN [ok |-> TRUE, value |-> v.value]
        ELSE [ok |-> FALSE, value |-> <<>>]


\* Pages that embed no feed: one without the webpack-monthly-trove-data
\* element, one whose element does not hold JSON.
NoPayloadPage == [page |-> "no payload"]

BadJsonPage == [page |-> "bad json"]

\* Bytes of a chunk that are not a JSON array.
NotAnArray == <<[not_an_array |-> TRUE]>>

\* A product of a chunk without the fields of Product.
BadProduct == [garbage |-> TRUE]

\* doc.find(Attr("id", "webpack-monthly-trove-data")).next() is Some.
has_payload(page) == ~("page" \in DOMAIN page /\ page.page = "no payload")

\* serde_json::from_str of the element's text gives a Value.
is_json(page) == ~("page" \in DOMAIN page)

\* serde_json::from_str::<Vec<Value>> of a chunk's bytes succeeds.
is_array(bytes) == ~(Len(bytes) = 1 /\ "not_an_array" \in DOMAIN bytes[1])

\* root["chunks"] is a Value::Number.
has_chunks(root) == "chunks" \in DOMAIN root

\* serde_json::from_value into Product succeeds.
is_product(v) == {"machine_name", "human_name", "date_added", "downloads"} \subseteq DOMAIN v

\* serde_json::from_value into Feed succeeds.
is_feed(root) ==
    /\ {"newlyAdded", "standardProducts", "countdownTimerOptions"} \subseteq DOMAIN root
    /\ \A i \in 1..Len(root.newlyAdded) : is_product(root.newlyAdded[i])
    /\ \A i \in 1..Len(root.standardProducts) : is_product(root.standardProducts[i])

\* serde_json::from_str into Feed: the feed, or the error of a text that is
\* not one document or does not hold the fields of Feed.
from_str(text) ==
    LET doc == from_str_value(text)
    IN  IF doc.ok /\ is_feed(doc.value)
        THEN [ok |-> TRUE, feed |-> from_value(doc.value)]
        ELSE [ok |-> FALSE, feed |-> <<>>]

\* TroveCache::feed_doc: the root document, retrieved through the cache and
\* parsed. The payload of the root locator stands for the JSON the page embeds.
\* A page without the element ends in the panic of unwrap, text that is not
\* JSON in an error.
feed_doc(dir, net) ==
    LET text == retrieve(dir, net, trove_url)
        fetched == IF text.fetched = 1 THEN {trove_url} ELSE {}
    IN  IF text.status # "ok"
        THEN [dir |-> text.dir, status |-> text.status, root |-> None,
              fetched |-> {trove_url}]
        ELSE IF ~has_payload(text.bytes[1])
        THEN [dir |-> text.dir, status |-> "panic", root |-> None, fetched |-> fetched]
        ELSE IF ~is_json(text.bytes[1])
        THEN [dir |-> text.dir, status |-> "err", root |-> None, fetched |-> fetched]
        ELSE [dir |-> text.dir, status |-> "ok", root |-> text.bytes,
              fetched |-> fetched]

\* TroveCache::chunks
chunks(root) == root.chunks

\* TroveCache::get_trove_feed: the root document with standardProducts replaced
\* by the concatenation of the chunks 0..chunks-1, each retrieved through the
\* cache; the first failure ends the call.
get_trove_feed(dir, net) ==
    LET doc == feed_doc(dir, net)
    IN  IF doc.status # "ok" THEN doc
        ELSE IF ~has_chunks(doc.root[1])
        THEN [dir |-> doc.dir, status |-> "panic", root |-> None,
              fetched |-> doc.fetched]
        ELSE
        LET root == doc.root[1]
            n == chunks(root)
            F[i \in 0..n] ==
                IF i = 0
                THEN [dir |-> doc.dir, status |-> "ok", products |-> <<>>,
                      fetched |-> doc.fetched]
                ELSE IF F[i - 1].status # "ok" THEN F[i - 1]
                ELSE LET bytes == retrieve(F[i - 1].dir, net, chunk_url(i - 1))
                         got == IF bytes.fetched = 1 THEN {chunk_url(i - 1)} ELSE {}
                     IN  IF bytes.status # "ok"
                         THEN [dir |-> bytes.dir, status |-> bytes.status,
                               products |-> <<>>, fetched |-> F[i - 1].fetched \cup got]
                         ELSE IF ~is_array(bytes.bytes[1])
                         THEN [dir |-> bytes.dir, status |-> "err",
                               products |-> <<>>, fetched |-> F[i - 1].fetched \cup got]
                         ELSE [dir |-> bytes.dir, status |-> "ok",
                               products |-> F[i - 1].products \o bytes.bytes[1],
                               fetched |-> F[i - 1].fetched \cup got]
        IN  IF F[n].status # "ok"
            THEN [dir |-> F[n].dir, status |-> F[n].status, root |-> None,
                  fetched |-> F[n].fetched]
            ELSE [dir |-> F[n].dir, status |-> "ok",
                  root |-> Some([root EXCEPT !.standardProducts = F[n].products]),
                  fetched |-> F[n].fetched]

\* An invalidation that removes the root document and leaves the chunks.
TroveCache_invalidate_root_only(dir, net) ==
    LET doc == feed_doc(dir, net)
    IN  IF doc.status # "ok" THEN [dir |-> doc.dir, status |-> doc.status]
        ELSE [dir |-> invalidate(doc.dir, trove_url), status |-> "ok"]

\* TroveCache::invalidate: reads the (cached) root document for the number of
\* chunks, then invalidates the root locator and each chunk locator.
TroveCache_invalidate(dir, net) ==
    LET doc == feed_doc(dir, net)
    IN  IF doc.status # "ok" THEN [dir |-> doc.dir, status |-> doc.status]
        ELSE IF ~has_chunks(doc.root[1]) THEN [dir |-> doc.dir, status |-> "panic"]
        ELSE
        LET n == chunks(doc.root[1])
            d0 == invalidate(doc.dir, trove_url)
            F[i \in 0..n] ==
                IF i = 0 THEN d0 ELSE invalidate(F[i - 1], chunk_url(i - 1))
        IN  [dir |-> F[n], status |-> "ok"]

\* TroveCache::invalidate in which the Cache::invalidate of chunk k returns
\* an error: the entries of the root document and of the chunks before k
\* have been removed, and the ? ends the call.
TroveCache_invalidate_fails(dir, net, k) ==
    LET doc == feed_doc(dir, net)
        d0 == invalidate(doc.dir, trove_url)
        F[i \in 0..k] ==
            IF i = 0 THEN d0 ELSE invalidate(F[i - 1], chunk_url(i - 1))
    IN  [dir |-> F[k], status |-> "err"]

\* The chunk locators whose entry is older than the root document's, after a
\* get_trove_feed that found the cache as before, left it as after and
\* fetched the locators in fetched: a root document fetched now is newer
\* than every chunk that was there, and a chunk fetched now is newer than
\* the root document.
older_than_root(before, after, fetched, was) ==
    IF ~exists(before, sha256(trove_url)) /\ exists(after, sha256(trove_url))
    THEN {u \in Locators \ {trove_url} : exists(before, sha256(u))}
    ELSE was \ fetched

\* TroveFeed::expired: Utc::now().timestamp() > expiration.timestamp()
expired(f, clock) == clock > f.countdown_timer_options.next_addition_time

\* The files of the ~/.trove directory.
feed_file == "trove_feed.json"

\* Utc::now().format("trove_feed-%Y-%m-%d.json")
backup_file(clock) == "trove_feed-" \o ToString(clock) \o ".json"

StoreFiles == {feed_file} \cup {backup_file(d) : d \in 0..MaxTime}

\* How File::create and the one File::write of TroveFeed::save end: the
\* whole text written; File::write returning Ok(n) with n bytes written,
\* fewer than the text has, which save does not look at; File::create
\* returning an error; File::write returning one.
Whole == [at |-> "whole", n |-> 0]

\* Where a short write stops.
Cuts(json) == {k \in {0, Len(json) \div 2, Len(json) - 1} : k < Len(json)}

SaveOutcomes(json) ==
    {Whole, [at |-> "create", n |-> 0], [at |-> "write", n |-> 0]}
        \cup {[at |-> "short", n |-> k] : k \in Cuts(json)}

\* TroveFeed::save: File::create(path)?, file.write(json)?, Ok(()).
save(dir, path, json, how) ==
    IF how.at = "create"
    THEN [status |-> "err", dir |-> dir]
    ELSE IF how.at = "write"
    THEN [status |-> "err", dir |-> [dir EXCEPT ![path] = Some(<<>>)]]
    ELSE IF how.at = "short"
    THEN [status |-> "ok", dir |-> [dir EXCEPT ![path] = Some(SubSeq(json, 1, how.n))]]
    ELSE [status |-> "ok", dir |-> [dir EXCEPT ![path] = Some(json)]]

\* TroveFeed::backup
backup(dir, clock, json, how) == save(dir, backup_file(clock), json, how)

\* Both writes of TroveFeed::new whole.
AllWhole == [feed |-> Whole, backup |-> Whole]

\* One activation of TroveFeed::new from the point where get_trove_feed has
\* returned root. status "recurse": the feed was expired, the cache was
\* invalidated and the function calls itself again; "err": from_value, the
\* invalidation, save or backup returned an error. saved tells how the
\* writes of save and of backup end.
TroveFeed_new(root, cache, dir, net, clock, saved) ==
    LET json == to_string_pretty(root)
        parsed == from_value(root)
    IN  IF ~is_feed(root)
        THEN [status |-> "err", cache |-> cache, dir |-> dir, feed |-> None,
              expired |-> FALSE]
        ELSE IF expired(parsed, clock)
        THEN LET inv == TroveCache_invalidate(cache, net)
             IN  [status |-> IF inv.status = "ok" THEN "recurse" ELSE inv.status,
                  cache |-> inv.dir, dir |-> dir, feed |-> None, expired |-> TRUE]
        ELSE LET deduped == retain_first(parsed.standard_products)
                 standard_products == merge_newly_added(deduped, parsed.newly_added)
                 trove_feed == [json |-> json,
                                feed |-> [parsed EXCEPT !.standard_products =
                                            alphabetically(standard_products)]]
                 written == save(dir, feed_file, json, saved.feed)
                 kept == backup(written.dir, clock, json, saved.backup)
             IN  IF written.status # "ok"
                 THEN [status |-> "err", cache |-> cache, dir |-> written.dir,
                       feed |-> None, expired |-> FALSE]
                 ELSE IF kept.status # "ok"
                 THEN [status |-> "err", cache |-> cache, dir |-> kept.dir,
                       feed |-> None, expired |-> FALSE]
                 ELSE [status |-> "ok", cache |-> cache, dir |-> kept.dir,
                       feed |-> Some(trove_feed), expired |-> FALSE]

\* TroveFeed::load: the text of the file parsed into Feed, de-duplicated,
\* merged and sorted by the function's own copy of the steps.
load(dir, path) ==
    IF IsNone(dir[path]) THEN [status |-> "err", feed |-> None]
    ELSE LET json == dir[path][1]
             parsed == from_str(json)
         IN  IF ~parsed.ok THEN [status |-> "err", feed |-> None]
             ELSE LET feed_ == parsed.feed
                      deduped == retain_first(feed_.standard_products)
                      standard_products == merge_newly_added(deduped, feed_.newly_added)
                  IN  [status |-> "ok",
                       feed |-> Some([json |-> json,
                                      feed |-> [feed_ EXCEPT !.standard_products =
                                                    alphabetically(standard_products)]])]

\* TroveFeed::products
products(tf) == tf.feed.standard_products

\* The display names of a list of products, in order.
human_names(ps) == [i \in 1..Len(ps) |-> ps[i].human_name]

\* A diff whose second loop tests the older list against itself.
diff_old_against_older(self, older) ==
    LET new(p) == ~contains(products(older), p.human_name)
        old(p) == ~contains(products(older), p.human_name)
    IN  [new_names |-> human_names(SelectSeq(products(self), new)),
         old_names |-> human_names(SelectSeq(products(older), old))]

\* TroveFeed::diff: the titles it prints as added and as deleted.
diff(self, older) ==
    LET new(p) == ~contains(products(older), p.human_name)
        old(p) == ~contains(products(self), p.human_name)
    IN  [new_names |-> human_names(SelectSeq(products(self), new)),
         old_names |-> human_names(SelectSeq(products(older), old))]

\* TroveFeed::sort_newest_to_oldest
sort_newest_to_oldest(tf) ==
    [tf EXCEPT !.feed.standard_products = newest_to_oldest(@)]

\* TroveFeed::sort_alphabetically
sort_alphabetically(tf) ==
    [tf EXCEPT !.feed.standard_products = alphabetically(@)]

-----------------------------------------------------------------------------
(* trove.rs: the library of games.                                         *)

\* The most records the library is let grow to.
MaxGames == 2

\* The longest product list of a feed handed to add_games.
MaxSnapshot == 2

\* PathBuf::file_name: the last component of a path or of a URL.
file_name(path) == path[Len(path)]

\* Path::join
join(dir, name) == Append(dir, name)

\* The installers the products name.
LibFiles == {file_name(p.downloads.windows) : p \in Products}

\* A file holds "installer" (the installer as downloaded), "truncated" (the
\* part of it a failed fs::copy left behind) or "earlier" (what was in root
\* before).

\* impl From<&Product> for TroveGame
TroveGame_from(p) ==
    LET download_urls == [windows |-> p.downloads.windows]
    IN  [machine_name |-> p.machine_name,
         human_name |-> p.human_name,
         date_added |-> p.date_added,
         downloaded |-> FALSE,
         installed |-> FALSE,
         downloads |-> [windows |-> <<file_name(download_urls.windows)>>],
         download_urls |-> download_urls,
         removed_from_trove |-> FALSE]

\* The paths a library is made in.
Paths == {<<"root">>, <<"downloads">>, <<"games">>}

\* Trove::new: the struct, and the two asserts that the directories exist;
\* existing is the set of directories that do.
Trove_new(root, downloads, existing) ==
    LET trove_ == [downloads |-> downloads, root |-> root, number_downloaded |-> 0,
                   total |-> 0, games |-> <<>>]
    IN  IF root \notin existing \/ downloads \notin existing
        THEN [status |-> "panic", trove |-> None]
        ELSE [status |-> "ok", trove |-> Some(trove_)]

\* let trove_games_json = trove_dir.join("trove.json"): the file whose
\* existence run() tests and that it hands to Trove::save.
trove_games_json == "trove.json"

\* The file Trove::load opens.
load_file == "trove_games.json"

\* The library files of the ~/.trove directory.
TroveFiles == {trove_games_json, load_file}

\* Trove::load(dir): the library that dir/trove_games.json holds, or the
\* error of File::open when there is no such file.
Trove_load(dir) ==
    IF IsNone(dir[load_file])
    THEN [status |-> "err", trove |-> None]
    ELSE [status |-> "ok", trove |-> dir[load_file]]

\* Trove::save(path): the records and the counts of the library written to
\* path, or an error that leaves the file as it was.
Trove_save(dir, path, self, how) ==
    IF how = "ok"
    THEN [status |-> "ok", dir |-> [dir EXCEPT ![path] = Some(self)]]
    ELSE [status |-> "err", dir |-> dir]

\* An add_games that makes the games anew from the feed.
add_games_replacing(self, ps) ==
    [self EXCEPT !.games = [i \in 1..Len(ps) |-> TroveGame_from(ps[i])]]

\* Trove::add_games: one record pushed for every product of the feed.
RECURSIVE add_games(_, _)
add_games(self, ps) ==
    IF Len(ps) = 0 THEN self
    ELSE add_games([self EXCEPT !.games = Append(@, TroveGame_from(Head(ps)))],
                   Tail(ps))

\* An update_download_status that counts every game as downloaded.
update_download_status_counts_all(self, rootFiles) ==
    LET games == [i \in 1..Len(self.games) |->
                    [self.games[i] EXCEPT !.downloaded =
                        exists(rootFiles, file_name(self.games[i].downloads.windows))]]
    IN  [self EXCEPT !.games = games, !.number_downloaded = Len(games),
                     !.total = Len(games)]

\* An update_download_status that takes a downloaded game for installed.
update_download_status_marks_installed(self, rootFiles) ==
    LET there(g) == exists(rootFiles, file_name(g.downloads.windows))
        games == [i \in 1..Len(self.games) |->
                    [self.games[i] EXCEPT !.downloaded = there(self.games[i]),
                                          !.installed = there(self.games[i])]]
        count == Cardinality({i \in 1..Len(games) : games[i].downloaded})
    IN  [self EXCEPT !.games = games, !.number_downloaded = count,
                     !.total = Len(games)]

\* Trove::update_download_status
update_download_status(self, rootFiles) ==
    LET games == [i \in 1..Len(self.games) |->
                    [self.games[i] EXCEPT !.downloaded =
                        exists(rootFiles, file_name(self.games[i].downloads.windows))]]
        count == Cardinality({i \in 1..Len(games) : games[i].downloaded})
    IN  [self EXCEPT !.games = games, !.number_downloaded = count,
                     !.total = Len(games)]

\* Trove::stray_downloads: for every game in order, the path of its installer
\* in the downloads directory when it is there.
stray_downloads(self, dlFiles) ==
    LET path(i) == join(self.downloads, file_name(self.games[i].downloads.windows))
        all == [i \in 1..Len(self.games) |-> path(i)]
        there(q) == exists(dlFiles, file_name(q))
    IN  SelectSeq(all, there)

\* How fs::copy and fs::remove_file end for one file of move_downloads.
Outcomes == {"ok", "copy_err", "copy_truncated", "remove_err"}

\* A closure that copies without looking whether the destination exists.
move_one_overwrites(download, how, disk) ==
    LET name == file_name(download)
    IN  IF ~exists(disk.downloads, name) \/ how = "copy_err"
        THEN [disk |-> disk, unmoved |-> TRUE]
        ELSE IF how = "copy_truncated"
        THEN [disk |-> [disk EXCEPT !.root = fs_write(@, name, "truncated")],
              unmoved |-> TRUE]
        ELSE LET copied == [disk EXCEPT !.root =
                                fs_write(@, name, fs_read(disk.downloads, name))]
             IN  IF how = "remove_err"
                 THEN [disk |-> copied, unmoved |-> TRUE]
                 ELSE [disk |-> [copied EXCEPT !.downloads = fs_remove_file(@, name)],
                       unmoved |-> FALSE]

\* A closure that skips a download whose destination exists without
\* returning it.
move_one_skips_silently(download, how, disk) ==
    LET name == file_name(download)
    IN  IF exists(disk.root, name)
        THEN [disk |-> disk, unmoved |-> FALSE]
        ELSE IF ~exists(disk.downloads, name) \/ how = "copy_err"
        THEN [disk |-> disk, unmoved |-> TRUE]
        ELSE IF how = "copy_truncated"
        THEN [disk |-> [disk EXCEPT !.root = fs_write(@, name, "truncated")],
              unmoved |-> TRUE]
        ELSE LET copied == [disk EXCEPT !.root =
                                fs_write(@, name, fs_read(disk.downloads, name))]
             IN  IF how = "remove_err"
                 THEN [disk |-> copied, unmoved |-> TRUE]
                 ELSE [disk |-> [copied EXCEPT !.downloads = fs_remove_file(@, name)],
                       unmoved |-> FALSE]

\* The closure of Trove::move_downloads for one stray download: disk is
\* [root, downloads], how is the way fs::copy and fs::remove_file end, and
\* unmoved says whether the closure gives Some(download).
move_one(download, how, disk) ==
    LET name == file_name(download)
    IN  IF exists(disk.root, name)
        THEN [disk |-> disk, unmoved |-> TRUE]
        ELSE IF ~exists(disk.downloads, name) \/ how = "copy_err"
        THEN [disk |-> disk, unmoved |-> TRUE]
        ELSE IF how = "copy_truncated"
        THEN [disk |-> [disk EXCEPT !.root = fs_write(@, name, "truncated")],
              unmoved |-> TRUE]
        ELSE LET copied == [disk EXCEPT !.root =
                                fs_write(@, name, fs_read(disk.downloads, name))]
             IN  IF how = "remove_err"
                 THEN [disk |-> copied, unmoved |-> TRUE]
                 ELSE [disk |-> [copied EXCEPT !.downloads = fs_remove_file(@, name)],
                       unmoved |-> FALSE]

\* filter_map of the closure over the strays from the i-th on, in order.
RECURSIVE move_each(_, _, _, _, _)
move_each(strays, i, outcome, disk, returned) ==
    IF i > Len(strays)
    THEN [root |-> disk.root, downloads |-> disk.downloads, returned |-> returned]
    ELSE LET one == move_one(strays[i], outcome[i], disk)
         IN  move_each(strays, i + 1, outcome, one.disk,
                       IF one.unmoved THEN Append(returned, strays[i]) ELSE returned)

\* Trove::move_downloads
move_downloads(self, rootFiles, dlFiles, outcome) ==
    move_each(stray_downloads(self, dlFiles), 1, outcome,
              [root |-> rootFiles, downloads |-> dlFiles], <<>>)

\* Trove::move_downloads killed in the closure of its k-th stray download:
\* the downloads before the k-th are done with as outcome says. at "start"
\* the k-th is untouched, at "copy" fs::copy has written a part of it to
\* root, at "remove" fs::copy has returned and fs::remove_file has not been
\* called. reached says whether the closure gets to that point: for the
\* last two the destination is absent and the source is there.
move_downloads_killed(self, rootFiles, dlFiles, outcome, k, at) ==
    LET strays == stray_downloads(self, dlFiles)
        done == move_each(SubSeq(strays, 1, k - 1), 1, outcome,
                          [root |-> rootFiles, downloads |-> dlFiles], <<>>)
        name == file_name(strays[k])
        copies == ~exists(done.root, name) /\ exists(done.downloads, name)
        reached == at = "start" \/ copies
    IN  [reached |-> reached,
         file |-> name,
         root |-> IF reached /\ at = "copy"
                  THEN fs_write(done.root, name, "truncated")
                  ELSE IF reached /\ at = "remove"
                  THEN fs_write(done.root, name, fs_read(done.downloads, name))
                  ELSE done.root,
         downloads |-> done.downloads]

\* No call has been made on the library.
NoLibCall(games, rootFiles, dlFiles) ==
    [op |-> "none", snapshot |-> <<>>, repeat |-> FALSE, before |-> games,
     rootBefore |-> rootFiles, dlBefore |-> dlFiles, returned |-> <<>>]

\* No library.
InitNoLib ==
    /\ dirs = {<<"root">>, <<"downloads">>}
    /\ made = None
    /\ trove_dir = [f \in TroveFiles |-> None]
    /\ trove = Trove_new(<<"root">>, <<"downloads">>, dirs).trove[1]
    /\ rootDir = [f \in LibFiles |-> None]
    /\ dlDir = [f \in LibFiles |-> None]
    /\ last = NoLibCall(<<>>, rootDir, dlDir)
    /\ crashed = {}
    /\ stale = {}

-----------------------------------------------------------------------------
(* The cache's operations as actions.                                      *)

\* The threads that call Cache::retrieve on one cache directory.
Callers == {"a", "b"}

\* A thread outside of Cache::retrieve.
IdleCaller ==
    [pc |-> "idle", url |-> "", buffer |-> None, status |-> "none", bytes |-> None]

InitNoCallers == callers = [c \in Callers |-> IdleCaller]

NoCall ==
    [op |-> "none", url |-> "", status |-> "none", bytes |-> None,
     fetched |-> 0, net |-> None, afterInval |-> FALSE]

InitCache ==
    /\ remote \in {r \in [Locators -> {Some(b) : b \in Payloads} \cup {None}] :
                      \A u \in Locators \ CacheLocators : IsNone(r[u])}
    /\ files = [f \in CacheFiles |-> None]
    /\ fetches = [u \in Locators |-> 0]
    /\ ret = NoCall
    /\ served = [u \in Locators |-> None]
    /\ since = [u \in Locators |-> 0]
    /\ inval = [u \in Locators |-> FALSE]

\* The history of the calls on url after a retrieve with outcome out.
Served(out, url) ==
    IF out.status = "ok" /\ IsNone(served[url]) THEN out.bytes ELSE served[url]

Since(out, url) ==
    IF out.status = "ok" \/ IsSome(served[url]) THEN since[url] + out.fetched ELSE 0

Retrieve(url) ==
    LET out == retrieve(files, remote, url)
    IN  /\ fetches[url] < MaxFetch
        /\ files' = out.dir
        /\ fetches' = [fetches EXCEPT ![url] = @ + out.fetched]
        /\ ret' = [op |-> "retrieve", url |-> url, status |-> out.status,
                   bytes |-> out.bytes, fetched |-> out.fetched,
                   net |-> remote[url], afterInval |-> inval[url]]
        /\ served' = [served EXCEPT ![url] = Served(out, url)]
        /\ since' = [since EXCEPT ![url] = Since(out, url)]
        /\ inval' = [inval EXCEPT ![url] = FALSE]
        /\ UNCHANGED remote

ForceRetrieve(url) ==
    LET out == force_retrieve(files, remote, url)
    IN  /\ fetches[url] < MaxFetch
        /\ files' = out.dir
        /\ fetches' = [fetches EXCEPT ![url] = @ + out.fetched]
        /\ ret' = [op |-> "force_retrieve", url |-> url, status |-> out.status,
                   bytes |-> out.bytes, fetched |-> out.fetched,
                   net |-> remote[url], afterInval |-> FALSE]
        /\ served' = [served EXCEPT ![url] = out.bytes]
        /\ since' = [since EXCEPT ![url] = IF out.status = "ok" THEN out.fetched ELSE 0]
        /\ inval' = [inval EXCEPT ![url] = FALSE]
        /\ UNCHANGED remote

Invalidate(url) ==
    /\ files' = invalidate(files, url)
    /\ ret' = [NoCall EXCEPT !.op = "invalidate", !.url = url, !.status = "ok"]
    /\ served' = [served EXCEPT ![url] = None]
    /\ since' = [since EXCEPT ![url] = 0]
    /\ inval' = [inval EXCEPT ![url] = TRUE]
    /\ UNCHANGED <<remote, fetches>>

\* cache.retrieve(url) in which a write to the cache directory fails.
RetrieveWriteFails(url, fault) ==
    LET out == retrieve_write_fails(files, remote, url, fault)
    IN  /\ fetches[url] < MaxFetch
        /\ ~exists(files, sha256(url))
        /\ IsSome(remote[url])
        /\ files' = out.dir
        /\ fetches' = [fetches EXCEPT ![url] = @ + out.fetched]
        /\ ret' = [op |-> "retrieve", url |-> url, status |-> out.status,
                   bytes |-> out.bytes, fetched |-> out.fetched,
                   net |-> remote[url], afterInval |-> inval[url]]
        /\ served' = [served EXCEPT ![url] = Served(out, url)]
        /\ since' = [since EXCEPT ![url] = Since(out, url)]
        /\ inval' = [inval EXCEPT ![url] = FALSE]
        /\ UNCHANGED remote

\* The remote side: the content behind a locator changes, or fetching it
\* starts or stops failing.
RemoteChanges(url) ==
    /\ \E p \in {Some(b) : b \in Payloads} \cup {None} :
          /\ p # remote[url]
          /\ remote' = [remote EXCEPT ![url] = p]
    /\ UNCHANGED <<files, fetches, ret, served, since, inval>>


-----------------------------------------------------------------------------
(* The feed's operations as actions.                                       *)

\* The root document the page embeds: the number of chunks, the time of the
\* next addition, the newly added products; its own standardProducts are
\* replaced by get_trove_feed.
RootDoc(n, exp, newly) ==
    [chunks |-> n, countdownTimerOptions |-> [nextAdditionTime |-> exp],
     newlyAdded |-> newly, standardProducts |-> <<>>]

\* The index of a chunk locator.
ChunkIndex(url) == CHOOSE i \in 0..(MaxChunks - 1) : chunk_url(i) = url

\* The site: a root document and the chunks.
Site(root, chunk) ==
    [u \in Locators |-> IF u = trove_url THEN Some(root) ELSE Some(chunk[ChunkIndex(u)])]

Idle ==
    [pc |-> "idle", cycles |-> 0, expired |-> 0, status |-> "none",
     fetched |-> {}, root |-> None]

InitNoFeed ==
    /\ now = 0
    /\ asm = Idle
    /\ feed = None
    /\ store = [f \in StoreFiles |-> None]
    /\ diffOut = None

InitNoCache ==
    /\ files = [f \in CacheFiles |-> None]
    /\ fetches = [u \in Locators |-> 0]
    /\ ret = NoCall
    /\ served = [u \in Locators |-> None]
    /\ since = [u \in Locators |-> 0]
    /\ inval = [u \in Locators |-> FALSE]

\* The feed with a site whose chunks are fixed and overlap with each other and
\* with the newly added list; the root document varies.
FeedChunk(i) == IF i = 0 THEN <<G1, G2>> ELSE <<G3, G2>>

InitFeed ==
    /\ InitNoCache
    /\ InitNoFeed
    /\ InitNoLib
    /\ InitNoCallers
    /\ \E n \in 1..MaxChunks, exp \in 0..MaxTime :
            remote = Site(RootDoc(n, exp, <<G3>>), [i \in 0..(MaxChunks - 1) |-> FeedChunk(i)])

\* The feed with a site of two chunks of any content, and any newly added
\* list, whose root document is not expired.
InitStore ==
    /\ InitNoCache
    /\ InitNoFeed
    /\ InitNoLib
    /\ InitNoCallers
    /\ \E newly \in SeqsUpTo(Products, MaxNewly),
          c0 \in SeqsUpTo(Products, MaxChunkLen),
          c1 \in SeqsUpTo(Products, MaxChunkLen) :
            remote = Site(RootDoc(2, MaxTime, newly),
                          [i \in 0..(MaxChunks - 1) |->
                              IF i = 0 THEN c0 ELSE IF i = 1 THEN c1 ELSE <<>>])

\* A counter that stops at its bound.
UpTo(n, max) == IF n < max THEN n + 1 ELSE n

\* TroveFeed::new, first half of an activation: cache.get_trove_feed(). The
\* call starts when none is in progress; an activation that found the feed
\* expired is followed by the recursive one. A failure ends the call.
Assemble ==
    LET got == get_trove_feed(files, remote)
    IN  /\ asm.pc \in {"idle", "new"}
        /\ files' = got.dir
        /\ feed' = None
        /\ asm' = [pc |-> IF got.status = "ok" THEN "assembled" ELSE "idle",
                   cycles |-> IF asm.pc = "idle" THEN 0 ELSE asm.cycles,
                   expired |-> IF asm.pc = "idle" THEN 0 ELSE asm.expired,
                   status |-> IF got.status = "ok" THEN "assembling" ELSE got.status,
                   fetched |-> got.fetched,
                   root |-> got.root]
        /\ stale' = older_than_root(files, got.dir, got.fetched, stale)
        /\ UNCHANGED <<remote, now, store, fetches, ret, served, since, inval, diffOut, libVars, threadVars, dirVars, crashed>>

\* TroveFeed::new, second half of an activation: the expiry check, and either
\* the invalidation before the recursive call or the feed saved and returned.
CheckSaving(saved) ==
    /\ asm.pc = "assembled"
    /\ \E out \in {TroveFeed_new(asm.root[1], files, store, remote, now, saved)} :
            /\ files' = out.cache
            /\ store' = out.dir
            /\ feed' = out.feed
            /\ asm' = [pc |-> IF out.status = "recurse" THEN "new" ELSE "idle",
                       cycles |-> IF out.status = "recurse" THEN UpTo(asm.cycles, MaxCycles)
                                  ELSE asm.cycles,
                       expired |-> IF out.expired THEN UpTo(asm.expired, MaxCycles)
                                   ELSE asm.expired,
                       status |-> out.status,
                       fetched |-> asm.fetched,
                       root |-> None]
            /\ stale' = {u \in stale : exists(out.cache, sha256(u))}
            /\ UNCHANGED <<remote, now, fetches, ret, served, since, inval, diffOut, libVars, threadVars, dirVars, crashed>>

\* The activation with both writes whole.
Check ==
    /\ asm.pc = "assembled"
    /\ CheckSaving(AllWhole)

\* The ways the writes of an activation that has come to save can end, other
\* than both whole.
SaveFaults ==
    IF asm.pc = "assembled" /\ is_feed(asm.root[1])
    THEN {[feed |-> a, backup |-> b] :
            a, b \in SaveOutcomes(to_string_pretty(asm.root[1]))} \ {AllWhole}
    ELSE {}

\* The activation saving a feed that is not expired, a write ending short or
\* in an error.
CheckSaveFails(saved) ==
    /\ asm.pc = "assembled"
    /\ is_feed(asm.root[1])
    /\ ~expired(from_value(asm.root[1]), now)
    /\ CheckSaving(saved)

\* TroveFeed::new, second half of an activation that finds the feed expired,
\* the invalidation failing at chunk k: the call returns the error.
InvalidationFails(k) ==
    LET out == TroveCache_invalidate_fails(files, remote, k)
    IN  /\ asm.pc = "assembled"
        /\ is_feed(asm.root[1])
        /\ expired(from_value(asm.root[1]), now)
        /\ k < chunks(asm.root[1])
        /\ exists(files, sha256(chunk_url(k)))
        /\ files' = out.dir
        /\ feed' = None
        /\ asm' = [pc |-> "idle",
                   cycles |-> asm.cycles,
                   expired |-> UpTo(asm.expired, MaxCycles),
                   status |-> out.status,
                   fetched |-> asm.fetched,
                   root |-> None]
        /\ stale' = {u \in stale : exists(out.dir, sha256(u))}
        /\ UNCHANGED <<remote, now, store, fetches, ret, served, since, inval, diffOut, libVars, threadVars, dirVars, crashed>>

\* TroveFeed::load of trove_feed.json: the feed, or the error of a file
\* that is not there or does not hold one.
Load ==
    /\ asm.pc = "idle"
    /\ \E out \in {load(store, feed_file)} :
            /\ feed' = out.feed
            /\ asm' = [Idle EXCEPT !.status = IF out.status = "ok" THEN "loaded"
                                              ELSE "load_err"]
    /\ UNCHANGED <<cacheVars, now, store, diffOut, libVars, threadVars, dirVars, ghostVars>>

\* --list --newest: feed.sort_newest_to_oldest()
SortNewest ==
    /\ IsSome(feed)
    /\ feed' = Some(sort_newest_to_oldest(feed[1]))
    /\ UNCHANGED <<cacheVars, now, asm, store, diffOut, libVars, threadVars, dirVars, ghostVars>>

\* feed.sort_alphabetically()
SortAlphabetically ==
    /\ IsSome(feed)
    /\ feed' = Some(sort_alphabetically(feed[1]))
    /\ UNCHANGED <<cacheVars, now, asm, store, diffOut, libVars, threadVars, dirVars, ghostVars>>

\* --diff path: the old version is loaded and diffed against the feed.
Diff(path) ==
    LET old == load(store, path)
    IN  /\ IsSome(feed)
        /\ old.status = "ok"
        /\ diffOut' = Some([self |-> feed[1], older |-> old.feed[1],
                            out |-> diff(feed[1], old.feed[1])])
        /\ UNCHANGED <<cacheVars, now, asm, feed, store, libVars, threadVars, dirVars, ghostVars>>

\* A day passes.
Tick ==
    /\ now < MaxTime
    /\ now' = now + 1
    /\ UNCHANGED <<cacheVars, asm, feed, store, diffOut, libVars, threadVars, dirVars, ghostVars>>

\* The site publishes a new root document: another time of next addition,
\* another number of chunks.
Publish ==
    /\ \E n \in 1..MaxChunks, exp \in 0..MaxTime :
          LET old == remote[trove_url][1]
              root == [old EXCEPT !.chunks = n,
                                  !.countdownTimerOptions.nextAdditionTime = exp]
          IN  /\ root # old
              /\ remote' = [remote EXCEPT ![trove_url] = Some(root)]
    /\ UNCHANGED <<files, fetches, ret, served, since, inval, feedVars, libVars, threadVars, dirVars, ghostVars>>

NextFeed ==
    \/ Assemble
    \/ Check
    \/ Load
    \/ Tick
    \/ Publish

SpecFeed == InitFeed /\ [][NextFeed]_vars

\* A call of TroveFeed::new that is in progress runs on: the recursive
\* activation that is due is made, and an activation goes on to its check.
FairSpecFeed ==
    SpecFeed /\ WF_vars(asm.pc = "new" /\ Assemble) /\ WF_vars(Check)

\* Assembling and loading feeds of any content.
NextStore ==
    \/ Assemble
    \/ Check
    \/ Load

SpecStore == InitStore /\ [][NextStore]_vars

\* Assembling and loading feeds of any content, the writes of save ending
\* in any way.
NextSave ==
    \/ Assemble
    \/ Check
    \/ \E saved \in SaveFaults : CheckSaveFails(saved)
    \/ Load

\* The site of InitFeed with any newly added list and a root document that
\* is not expired.
InitSave ==
    /\ InitNoCache
    /\ InitNoFeed
    /\ InitNoLib
    /\ InitNoCallers
    /\ \E n \in 1..MaxChunks, newly \in SeqsUpTo(Products, MaxNewly) :
            remote = Site(RootDoc(n, MaxTime, newly),
                          [i \in 0..(MaxChunks - 1) |-> FeedChunk(i)])

SpecSave == InitSave /\ [][NextSave]_vars

\* Assembling the feed with invalidations that fail part-way.
NextStale ==
    \/ Assemble
    \/ Check
    \/ Tick
    \/ Publish
    \/ \E k \in 0..(MaxChunks - 1) : InvalidationFails(k)

SpecStale == InitFeed /\ [][NextStale]_vars

\* What a locator gives when the site is broken: no response, a page without
\* the feed, a root document without the number of chunks or without the
\* countdown, a chunk that is no array or holds no product.
Broken(url) ==
    IF url = trove_url
    THEN {None, Some(NoPayloadPage), Some(BadJsonPage),
          Some([countdownTimerOptions |-> [nextAdditionTime |-> MaxTime],
                newlyAdded |-> <<>>, standardProducts |-> <<>>]),
          Some([chunks |-> 1, newlyAdded |-> <<>>, standardProducts |-> <<>>])}
    ELSE {None, Some(NotAnArray), Some(<<BadProduct>>)}

\* The site breaks at one locator.
Breaks(url) ==
    /\ \E bad \in Broken(url) :
          /\ bad # remote[url]
          /\ remote' = [remote EXCEPT ![url] = bad]
    /\ UNCHANGED <<files, fetches, ret, served, since, inval, feedVars, libVars, threadVars, dirVars, ghostVars>>

\* Assembling the feed from a site that breaks.
NextFail ==
    \/ Assemble
    \/ Check
    \/ Tick
    \/ \E url \in Locators : Breaks(url)

SpecFail == InitFeed /\ [][NextFail]_vars

\* Two saved feeds of any content, one being the current trove_feed.json and
\* the other a backup of an earlier day.
SavedFeed(standard) == to_string_pretty([RootDoc(1, MaxTime, <<>>) EXCEPT !.standardProducts = standard])

InitDiff ==
    /\ InitNoCache
    /\ InitNoLib
    /\ InitNoCallers
    /\ remote = [u \in Locators |-> None]
    /\ now = 1
    /\ asm = Idle
    /\ feed = None
    /\ diffOut = None
    /\ \E a, b \in SeqsUpTo(Products, MaxListLen) :
          store = [f \in StoreFiles |->
                      IF f = feed_file THEN Some(SavedFeed(a))
                      ELSE IF f = backup_file(0) THEN Some(SavedFeed(b))
                      ELSE None]

NextDiff ==
    \/ Load
    \/ SortNewest
    \/ SortAlphabetically
    \/ \E path \in StoreFiles : Diff(path)

SpecDiff == InitDiff /\ [][NextDiff]_vars

-----------------------------------------------------------------------------
(* The specification of the cache on its own.                              *)

NextCache ==
    \/ \E url \in CacheLocators : Retrieve(url) /\ UNCHANGED <<feedVars, libVars, threadVars, dirVars, ghostVars>>
    \/ \E url \in CacheLocators : ForceRetrieve(url) /\ UNCHANGED <<feedVars, libVars, threadVars, dirVars, ghostVars>>
    \/ \E url \in CacheLocators : Invalidate(url) /\ UNCHANGED <<feedVars, libVars, threadVars, dirVars, ghostVars>>
    \/ \E url \in CacheLocators : RemoteChanges(url) /\ UNCHANGED <<feedVars, libVars, threadVars, dirVars, ghostVars>>

\* The cache with writes that fail.
NextFault ==
    \/ \E url \in CacheLocators : Retrieve(url) /\ UNCHANGED <<feedVars, libVars, threadVars, dirVars, ghostVars>>
    \/ \E url \in CacheLocators : \E fault \in WriteFaults(remote, url) :
            RetrieveWriteFails(url, fault) /\ UNCHANGED <<feedVars, libVars, threadVars, dirVars, ghostVars>>
    \/ \E url \in CacheLocators : Invalidate(url) /\ UNCHANGED <<feedVars, libVars, threadVars, dirVars, ghostVars>>
    \/ \E url \in CacheLocators : RemoteChanges(url) /\ UNCHANGED <<feedVars, libVars, threadVars, dirVars, ghostVars>>

\* A new cache directory, and no feed assembled from it.
InitCacheOnly == InitCache /\ InitNoFeed /\ InitNoLib /\ InitNoCallers

SpecFault == InitCacheOnly /\ [][NextFault]_vars

SpecCache == InitCacheOnly /\ [][NextCache]_vars

-----------------------------------------------------------------------------
(* Cache::retrieve statement by statement, for threads that share the      *)
(* cache directory.                                                        *)

\* What another thread can find in a file that fs::write is writing: the
\* file is created empty and the bytes come after.
Prefixes(buffer) == {SubSeq(buffer, 1, k) : k \in 0..(Len(buffer) - 1)}

RaceFrame == UNCHANGED <<remote, ret, served, since, inval, feedVars, libVars, dirVars, ghostVars>>

\* cache.retrieve(url) is called.
RCall(c, url) ==
    /\ callers[c].pc = "idle"
    /\ callers' = [callers EXCEPT ![c] = [IdleCaller EXCEPT !.pc = "exists", !.url = url]]
    /\ UNCHANGED <<files, fetches>>
    /\ RaceFrame

\* if !cached.exists()
RExists(c) ==
    /\ callers[c].pc = "exists"
    /\ callers' = [callers EXCEPT ![c].pc =
                     IF ~exists(files, sha256(callers[c].url)) THEN "get" ELSE "read"]
    /\ UNCHANGED <<files, fetches>>
    /\ RaceFrame

\* reqwest::get(url).unwrap(), the assert and read_to_end
RGet(c) ==
    LET url == callers[c].url
    IN  /\ callers[c].pc = "get"
        /\ fetches[url] < MaxFetch
        /\ fetches' = [fetches EXCEPT ![url] = @ + 1]
        /\ callers' = [callers EXCEPT ![c] =
                         IF IsNone(remote[url])
                         THEN [@ EXCEPT !.pc = "done", !.status = "panic"]
                         ELSE [@ EXCEPT !.pc = "write", !.buffer = remote[url]]]
        /\ UNCHANGED files
        /\ RaceFrame

\* fs::write(&cached, buffer) has created the file and written part of it.
RWriteStart(c) ==
    /\ callers[c].pc = "write"
    /\ \E part \in Prefixes(callers[c].buffer[1]) :
          files' = fs_write(files, sha256(callers[c].url), part)
    /\ callers' = [callers EXCEPT ![c].pc = "writing"]
    /\ UNCHANGED fetches
    /\ RaceFrame

\* fs::write(&cached, buffer) has written all of it.
RWriteEnd(c) ==
    /\ callers[c].pc = "writing"
    /\ files' = fs_write(files, sha256(callers[c].url), callers[c].buffer[1])
    /\ callers' = [callers EXCEPT ![c].pc = "sidecar"]
    /\ UNCHANGED fetches
    /\ RaceFrame

\* fs::write of the .url file has created the file and written part of it.
RSidecarStart(c) ==
    /\ callers[c].pc = "sidecar"
    /\ \E part \in SidecarPrefixes :
          files' = fs_write(files, url_file(sha256(callers[c].url)), part)
    /\ callers' = [callers EXCEPT ![c].pc = "sidecar_writing"]
    /\ UNCHANGED fetches
    /\ RaceFrame

\* fs::write of the .url file has written all of it.
RSidecarEnd(c) ==
    /\ callers[c].pc = "sidecar_writing"
    /\ files' = fs_write(files, url_file(sha256(callers[c].url)), callers[c].url)
    /\ callers' = [callers EXCEPT ![c].pc = "read"]
    /\ UNCHANGED fetches
    /\ RaceFrame

\* Ok(fs::read(cached)?)
RRead(c) ==
    LET cached == sha256(callers[c].url)
    IN  /\ callers[c].pc = "read"
        /\ callers' = [callers EXCEPT ![c] =
                         IF exists(files, cached)
                         THEN [@ EXCEPT !.pc = "done", !.status = "ok",
                                        !.bytes = Some(fs_read(files, cached))]
                         ELSE [@ EXCEPT !.pc = "done", !.status = "err"]]
        /\ UNCHANGED <<files, fetches>>
        /\ RaceFrame

NextRace ==
    \/ \E c \in Callers, url \in CacheLocators : RCall(c, url)
    \/ \E c \in Callers : RExists(c)
    \/ \E c \in Callers : RGet(c)
    \/ \E c \in Callers : RWriteStart(c)
    \/ \E c \in Callers : RWriteEnd(c)
    \/ \E c \in Callers : RSidecarStart(c)
    \/ \E c \in Callers : RSidecarEnd(c)
    \/ \E c \in Callers : RRead(c)

\* Two threads, each calling retrieve once on a new cache directory.
SpecRace == InitCacheOnly /\ [][NextRace]_vars

-----------------------------------------------------------------------------
(* The library's operations as actions.                                    *)

\* TroveFeed::load of every trove_feed.json of standard products: the list
\* saved and the feed loaded from it.
Snapshots ==
    {<<standard,
       load([f \in StoreFiles |-> IF f = feed_file THEN Some(SavedFeed(standard)) ELSE None],
            feed_file).feed[1]>> : standard \in SeqsUpTo(Products, MaxSnapshot)}

\* The feed loaded from the file whose products are standard.
Snapshot(standard) == (CHOOSE s \in Snapshots : s[1] = standard)[2]

\* A library made in two directories that exist and hold any files.
InitLib ==
    /\ InitNoCache
    /\ InitNoFeed
    /\ InitNoCallers
    /\ remote = [u \in Locators |-> None]
    /\ dirs = {<<"root">>, <<"downloads">>}
    /\ made = None
    /\ trove_dir = [f \in TroveFiles |-> None]
    /\ trove = Trove_new(<<"root">>, <<"downloads">>, dirs).trove[1]
    /\ rootDir \in [LibFiles -> {None, Some("earlier")}]
    /\ dlDir \in [LibFiles -> {None, Some("installer")}]
    /\ last = NoLibCall(<<>>, rootDir, dlDir)
    /\ crashed = {}
    /\ stale = {}

\* trove.add_games(trove_feed), the feed having been loaded.
AddGames(standard) ==
    LET tf == Snapshot(standard)
    IN  /\ Len(trove.games) + Len(products(tf)) <= MaxGames
        /\ trove' = add_games(trove, products(tf))
        /\ last' = [NoLibCall(trove.games, rootDir, dlDir) EXCEPT
                        !.op = "add_games",
                        !.snapshot = products(tf),
                        !.repeat = (last.op = "add_games"
                                    /\ last.snapshot = products(tf))]
        /\ UNCHANGED <<cacheVars, feedVars, threadVars, dirVars, ghostVars, rootDir, dlDir>>

\* trove.update_download_status()
UpdateDownloadStatus ==
    /\ trove' = update_download_status(trove, rootDir)
    /\ last' = [NoLibCall(trove.games, rootDir, dlDir) EXCEPT
                    !.op = "update_download_status"]
    /\ UNCHANGED <<cacheVars, feedVars, threadVars, dirVars, ghostVars, rootDir, dlDir>>

\* --stray-downloads: the paths printed.
StrayDownloads ==
    /\ last' = [NoLibCall(trove.games, rootDir, dlDir) EXCEPT
                    !.op = "stray_downloads",
                    !.returned = stray_downloads(trove, dlDir)]
    /\ UNCHANGED <<cacheVars, feedVars, threadVars, dirVars, ghostVars, trove, rootDir, dlDir>>

\* --move-downloads, fs::copy and fs::remove_file ending in any way for
\* each stray download.
MoveDownloads(outcome) ==
    LET out == move_downloads(trove, rootDir, dlDir, outcome)
    IN  /\ rootDir' = out.root
        /\ dlDir' = out.downloads
        /\ last' = [NoLibCall(trove.games, rootDir, dlDir) EXCEPT
                        !.op = "move_downloads",
                        !.returned = out.returned]
        /\ UNCHANGED <<cacheVars, feedVars, threadVars, dirVars, ghostVars, trove>>

\* How Trove::save ends.
LibrarySaveOutcomes == {"ok", "err"}

\* run(), lines 59-94: the library the process goes on with. When
\* ~/.trove/trove.json exists the library is the one Trove::load reads from
\* trove_games.json (no argument named update is declared, so lines 67-79
\* are passed over). Otherwise it is made by Trove::new, filled by add_games
\* with the products of trove_feed.json and saved to trove.json. given says
\* whether --downloads and --root were both passed, saved how Trove::save
\* ends. status "exit": exit(1) of line 84; "panic": an assert of
\* Trove::new; "err": an error returned through a question mark.
run_library(dir, feeds, existing, given, saved) ==
    IF exists(dir, trove_games_json)
    THEN LET loaded == Trove_load(dir)
         IN  [status |-> loaded.status, trove |-> loaded.trove, dir |-> dir]
    ELSE IF ~given
    THEN [status |-> "exit", trove |-> None, dir |-> dir]
    ELSE LET made_ == Trove_new(<<"root">>, <<"downloads">>, existing)
             trove_feed == load(feeds, feed_file)
         IN  IF made_.status # "ok"
             THEN [status |-> "panic", trove |-> None, dir |-> dir]
             ELSE IF trove_feed.status # "ok"
             THEN [status |-> "err", trove |-> None, dir |-> dir]
             ELSE LET trove_ == add_games(made_.trove[1], products(trove_feed.feed[1]))
                      out == Trove_save(dir, trove_games_json, trove_, saved)
                  IN  [status |-> out.status,
                       trove |-> IF out.status = "ok" THEN Some(trove_) ELSE None,
                       dir |-> out.dir]

\* A process is between line 94 and the end of run(): last tells the call
\* it made last.
Running ==
    last.op \in {"start", "stray_downloads", "move_downloads", "update_download_status"}

\* A process starts and comes to line 94 with its library, or ends before
\* with an error and without one.
Start(given, saved) ==
    LET out == run_library(trove_dir, store, dirs, given, saved)
    IN  /\ ~Running
        /\ trove' = IF out.status = "ok" THEN out.trove[1] ELSE None
        /\ trove_dir' = out.dir
        /\ last' = [NoLibCall(<<>>, rootDir, dlDir) EXCEPT
                        !.op = IF out.status = "ok" THEN "start" ELSE "error"]
        /\ UNCHANGED <<cacheVars, feedVars, threadVars, ghostVars, dirs, made,
                       rootDir, dlDir>>

\* Lines 95-99, --stray-downloads having been passed.
RunStrayDownloads ==
    /\ last.op = "start"
    /\ StrayDownloads

\* Lines 100-102, --move-downloads having been passed.
RunMoveDownloads(outcome) ==
    /\ last.op \in {"start", "stray_downloads"}
    /\ MoveDownloads(outcome)

\* Line 103.
RunUpdateDownloadStatus ==
    /\ last.op \in {"start", "stray_downloads", "move_downloads"}
    /\ UpdateDownloadStatus

\* Lines 104-119: the games are listed and the process ends; its library
\* ends with it.
Exit ==
    /\ last.op = "update_download_status"
    /\ trove' = None
    /\ last' = [NoLibCall(<<>>, rootDir, dlDir) EXCEPT !.op = "exit"]
    /\ UNCHANGED <<cacheVars, feedVars, threadVars, dirVars, ghostVars, rootDir, dlDir>>

\* Lines 100-102, the process killed in the closure of the k-th stray
\* download at the point at. The library of the process is gone with it,
\* and the next one is made by the next Start.
MoveKilled(outcome, k, at) ==
    LET out == move_downloads_killed(trove, rootDir, dlDir, outcome, k, at)
    IN  /\ last.op \in {"start", "stray_downloads"}
        /\ out.reached
        /\ rootDir' = out.root
        /\ dlDir' = out.downloads
        /\ crashed' = IF at = "remove" THEN crashed \cup {out.file} ELSE crashed
        /\ trove' = None
        /\ last' = [NoLibCall(<<>>, rootDir, dlDir) EXCEPT !.op = "killed"]
        /\ UNCHANGED <<cacheVars, feedVars, threadVars, dirVars, stale>>

\* The libraries a file of ~/.trove can hold: the flags and counts are those
\* set by whoever wrote the file.
SavedLibraries ==
    LET made_ == Trove_new(<<"root">>, <<"downloads">>, {<<"root">>, <<"downloads">>}).trove[1]
    IN  {[made_ EXCEPT !.games = <<[TroveGame_from(G1) EXCEPT !.installed = TRUE]>>,
                       !.number_downloaded = MaxGames],
         [made_ EXCEPT !.games = <<[TroveGame_from(G2) EXCEPT !.removed_from_trove = TRUE,
                                                              !.downloaded = TRUE]>>]}

\* The trove_feed.json files: none, or a feed of any products.
SavedFeeds ==
    {None} \cup {Some(SavedFeed(standard)) : standard \in SeqsUpTo(Products, MaxSnapshot)}

\* No process yet: root and downloads hold any files, with an installer to
\* move, and ~/.trove holds any of trove.json, trove_games.json and
\* trove_feed.json.
InitCrash ==
    /\ InitNoCache
    /\ InitNoCallers
    /\ remote = [u \in Locators |-> None]
    /\ now = 0
    /\ asm = Idle
    /\ feed = None
    /\ store \in {[f \in StoreFiles |-> IF f = feed_file THEN saved ELSE None] :
                    saved \in SavedFeeds}
    /\ diffOut = None
    /\ dirs = {<<"root">>, <<"downloads">>}
    /\ made = None
    /\ trove_dir \in [TroveFiles -> {None} \cup {Some(l) : l \in SavedLibraries}]
    /\ trove = None
    /\ rootDir \in [LibFiles -> {None, Some("earlier")}]
    /\ dlDir \in [LibFiles -> {None, Some("installer")}] \ {[f \in LibFiles |-> None]}
    /\ last = NoLibCall(<<>>, rootDir, dlDir)
    /\ crashed = {}
    /\ stale = {}

NextLib ==
    \/ \E standard \in SeqsUpTo(Products, MaxSnapshot) : AddGames(standard)
    \/ UpdateDownloadStatus
    \/ StrayDownloads
    \/ \E outcome \in [1..Len(stray_downloads(trove, dlDir)) -> Outcomes] :
            MoveDownloads(outcome)

\* How far the closure of move_downloads has come when the process is
\* killed: before its test of the destination, inside fs::copy, or between
\* fs::copy and fs::remove_file.
KillPoints == {"start", "copy", "remove"}

\* The stray downloads of the running process, none when no process runs.
RunStrays == IF Running THEN stray_downloads(trove, dlDir) ELSE <<>>

\* One process of the program after another, each run to its end or killed
\* inside move_downloads.
NextCrash ==
    \/ \E given \in BOOLEAN, saved \in LibrarySaveOutcomes : Start(given, saved)
    \/ RunStrayDownloads
    \/ \E outcome \in [1..Len(RunStrays) -> Outcomes] : RunMoveDownloads(outcome)
    \/ \E k \in 1..Len(RunStrays) :
            \E outcome \in [1..(k - 1) -> Outcomes], at \in KillPoints :
                MoveKilled(outcome, k, at)
    \/ RunUpdateDownloadStatus
    \/ Exit

SpecCrash == InitCrash /\ [][NextCrash]_vars

SpecLib == InitLib /\ [][NextLib]_vars

-----------------------------------------------------------------------------
(* Making a library.                                                       *)

\* No library yet, and any of the directories there.
InitNew ==
    /\ InitNoCache
    /\ InitNoFeed
    /\ InitNoCallers
    /\ remote = [u \in Locators |-> None]
    /\ dirs \in SUBSET Paths
    /\ made = None
    /\ trove_dir = [f \in TroveFiles |-> None]
    /\ trove = Trove_new(<<"root">>, <<"downloads">>, Paths).trove[1]
    /\ rootDir = [f \in LibFiles |-> None]
    /\ dlDir = [f \in LibFiles |-> None]
    /\ last = NoLibCall(<<>>, rootDir, dlDir)
    /\ crashed = {}
    /\ stale = {}

\* Trove::new(&root, &downloads)
New(root, downloads) ==
    LET out == Trove_new(root, downloads, dirs)
    IN  /\ made' = Some([root |-> root, downloads |-> downloads, existing |-> dirs,
                         status |-> out.status, trove |-> out.trove])
        /\ UNCHANGED <<cacheVars, feedVars, libVars, threadVars, ghostVars, dirs, trove_dir>>

\* A directory is made, or removed.
Mkdir(d) ==
    /\ d \notin dirs
    /\ dirs' = dirs \cup {d}
    /\ UNCHANGED <<cacheVars, feedVars, libVars, threadVars, ghostVars, made, trove_dir>>

Rmdir(d) ==
    /\ d \in dirs
    /\ dirs' = dirs \ {d}
    /\ UNCHANGED <<cacheVars, feedVars, libVars, threadVars, ghostVars, made, trove_dir>>

NextNew ==
    \/ \E root, downloads \in Paths : New(root, downloads)
    \/ \E d \in Paths : Mkdir(d)
    \/ \E d \in Paths : Rmdir(d)

SpecNew == InitNew /\ [][NextNew]_vars

-----------------------------------------------------------------------------
(* Records made from products of any platform.                             *)

\* The platform keys a product's downloads map can have.
Platforms == {"windows", "mac", "linux"}

\* A product whose downloads map has the platform keys given, each with its
\* own installer.
PortedGame(mn, date, keys) ==
    [Game(mn, "Alpha", date, mn) EXCEPT
        !.downloads = [k \in keys |-> <<"https://dl.humble.com", mn \o "." \o k>>]]

PortedProducts ==
    {PortedGame(mn, date, keys) :
        mn \in {"game1", "game2"}, date \in 1..MaxTime, keys \in SUBSET Platforms}

\* product.into(): p.downloads["windows"] panics when the map has no such
\* key, and the record is made otherwise.
into(p) ==
    IF "windows" \notin DOMAIN p.downloads
    THEN [status |-> "panic", game |-> None]
    ELSE [status |-> "ok", game |-> Some(TroveGame_from(p))]

\* A library with no records, and no files.
InitInto ==
    /\ InitNoCache
    /\ InitNoFeed
    /\ InitNoCallers
    /\ InitNoLib
    /\ remote = [u \in Locators |-> None]

\* One turn of the loop of add_games: the record of p is made and pushed; a
\* panic ends the process with the library as it was.
Into(p) ==
    LET out == into(p)
    IN  /\ Len(trove.games) < MaxGames
        /\ trove' = IF out.status = "ok"
                    THEN [trove EXCEPT !.games = Append(@, out.game[1])]
                    ELSE trove
        /\ last' = [NoLibCall(trove.games, rootDir, dlDir) EXCEPT
                        !.op = "into",
                        !.snapshot = <<p>>,
                        !.returned = out.status]
        /\ UNCHANGED <<cacheVars, feedVars, threadVars, dirVars, ghostVars, rootDir, dlDir>>

NextInto ==
    \/ \E p \in PortedProducts : Into(p)

SpecInto == InitInto /\ [][NextInto]_vars

-----------------------------------------------------------------------------
(* Claims about the cache.                                                 *)

\* C1: for every locator, the retrieve calls made since its entry was last
\* removed (no invalidate or force_retrieve between them) made exactly one
\* fetch together as soon as one of them returned, and every one that returns
\* gives the bytes the first one gave, whatever the network serves by then.
C1_OneFetchSameBytes ==
    \A u \in Locators :
        IsSome(served[u]) =>
            /\ since[u] = 1
            /\ (ret.op = "retrieve" /\ ret.url = u /\ ret.status = "ok")
                  => ret.bytes = served[u]

\* A second retrieve was served from the blob while the fetch would fail.
C1_Witness ==
    /\ ret.op = "retrieve" /\ ret.status = "ok" /\ ret.fetched = 0
    /\ IsNone(remote[ret.url])
    /\ since[ret.url] = 1
    /\ ret.bytes = Some(<<1, 2, 3>>)

\* C2: a retrieve that follows an invalidate of its locator, and every
\* force_retrieve, makes one fetch and, when it returns, returns the bytes the
\* network served at the call, whether or not an entry was stored before.
C2_FreshFetch ==
    (ret.op = "force_retrieve" \/ (ret.op = "retrieve" /\ ret.afterInval)) =>
        /\ ret.fetched = 1
        /\ ret.status = "ok" <=> IsSome(ret.net)
        /\ ret.status = "ok" => ret.bytes = ret.net

\* A force_retrieve replaced a stored entry by different, fresh bytes.
C2_Witness ==
    /\ ret.op = "force_retrieve" /\ ret.status = "ok"
    /\ fetches[ret.url] >= 2
    /\ ret.bytes = ret.net
    /\ ret.bytes # Some(<<1, 2, 3>>)

\* C13: a retrieve whose fetch failed returned an error value, and the
\* cache has no entry for its locator afterwards.
C13_FetchFailureIsAnErrorValue ==
    (ret.op = "retrieve" /\ ret.fetched = 1 /\ IsNone(ret.net)) =>
        /\ ret.status = "err"
        /\ ~exists(files, sha256(ret.url))

\* C14: when two threads have retrieved the same locator from a cache that
\* had no entry for it, one fetch of it was made, and the bytes each thread
\* returned are a whole payload.
C14_SingleFlight ==
    \A c, d \in Callers :
        (c # d /\ callers[c].status = "ok" /\ callers[d].status = "ok"
              /\ callers[c].url = callers[d].url) =>
            /\ fetches[callers[c].url] = 1
            /\ callers[c].bytes[1] \in Payloads

-----------------------------------------------------------------------------
(* Claims about the feed.                                                  *)

\* The machine names of a list of products, in order.
MachineNames(ps) == [i \in 1..Len(ps) |-> ps[i].machine_name]

\* No element occurs twice in the sequence.
NoRepeat(s) == \A i, j \in 1..Len(s) : i # j => s[i] # s[j]

\* The document that the text of a feed holds.
Doc(tf) == from_str_value(tf.json).value

\* C3: the product list of the feed that TroveFeed::new or TroveFeed::load
\* returned never holds two products with the same machine_name, whatever the
\* chunks and the newly added list hold.
C3_UniqueMachineNames ==
    IsSome(feed) => NoRepeat(MachineNames(products(feed[1])))

\* A feed was assembled from chunks that repeat a machine name and a newly
\* added list that overlaps them, and kept more than one product.
C3_Witness ==
    /\ IsSome(feed)
    /\ asm.status = "ok"
    /\ LET doc == Doc(feed[1])
       IN  /\ ~NoRepeat(MachineNames(doc.standardProducts))
           /\ \E i \in 1..Len(doc.newlyAdded) :
                 \E j \in 1..Len(doc.standardProducts) :
                    doc.newlyAdded[i].machine_name
                       = doc.standardProducts[j].machine_name
    /\ Len(products(feed[1])) = 2

\* C4: a call of TroveFeed::new makes at most one invalidate-and-retry cycle,
\* and when the feed assembled after it is expired too the call ends with the
\* error StaleFeedRace.
C4_OneRetryThenStaleFeedRace ==
    /\ asm.cycles <= 1
    /\ asm.expired >= 2 => asm.status = "StaleFeedRace"

\* C5: a call of TroveFeed::new that is in progress ends.
C5_NewTerminates == (asm.pc # "idle") ~> (asm.pc = "idle")

\* The sort key of a product: its display name in lower case, as a rank.
SortKey(p) == StringRank(to_lowercase(p.human_name))

\* The products of the file of a feed in the order they were first seen: the
\* chunks one after the other, then the newly added.
FirstSeen(tf) ==
    LET doc == Doc(tf)
    IN  doc.standardProducts \o doc.newlyAdded

\* Where a machine_name is first seen.
FirstIndex(tf, mn) ==
    LET seen == FirstSeen(tf)
    IN  CHOOSE i \in 1..Len(seen) :
            /\ seen[i].machine_name = mn
            /\ \A j \in 1..(i - 1) : seen[j].machine_name # mn

\* C19: the products of a feed that TroveFeed::new or TroveFeed::load gave
\* are in non-decreasing order of the lower-cased display name, and those
\* with the same key are in the order they were first seen.
C19_SortedAndStable ==
    IsSome(feed) =>
        LET ps == products(feed[1])
        IN  \A i, j \in 1..Len(ps) :
                i < j =>
                    /\ SortKey(ps[i]) <= SortKey(ps[j])
                    /\ SortKey(ps[i]) = SortKey(ps[j]) =>
                          FirstIndex(feed[1], ps[i].machine_name)
                              < FirstIndex(feed[1], ps[j].machine_name)

\* A feed of two products whose names differ in case only, the one written
\* in lower case seen first and standing first.
C19_Witness ==
    /\ IsSome(feed)
    /\ products(feed[1]) = <<G2, G1>>

\* The step is an activation of TroveFeed::new that ended in a failure.
FailedStep == asm' # asm /\ asm'.status \in {"err", "panic"}

\* C12: an assembly that fails returns an error, gives no feed and leaves
\* trove_feed.json and the backups as they were.
C12_FailureReturnsErrorWritesNothing ==
    [][FailedStep => (asm'.status = "err" /\ IsNone(feed') /\ store' = store)]_vars

\* C11: when TroveFeed::new has returned a feed (and so saved its text) and
\* trove_feed.json is loaded next, the load gives a feed, and the loaded
\* feed has the machine_names of the returned one, in the same order.
C11_SaveLoadRoundTrip ==
    [][(asm.status = "ok" /\ IsSome(feed) /\ asm'.status \in {"loaded", "load_err"}) =>
            /\ asm'.status = "loaded"
            /\ IsSome(feed')
            /\ MachineNames(products(feed'[1])) = MachineNames(products(feed[1]))]_vars

-----------------------------------------------------------------------------
(* Claims about the library.                                               *)

\* C6: add_games of a feed made right after add_games of the same feed
\* leaves the games as the first call left them, in number and in content.
C6_AddGamesIdempotent ==
    (last.op = "add_games" /\ last.repeat) => trove.games = last.before

\* C7: no two games of the library have the same machine_name, whatever
\* feeds add_games was called with.
C7_GamesUniqueByMachineName == NoRepeat(MachineNames(trove.games))

\* The path move_downloads and stray_downloads give for the installer f.
StrayPath(f) == join(trove.downloads, f)

\* p is one of the paths the last call returned.
Returned(p) == \E i \in 1..Len(last.returned) : last.returned[i] = p

\* Some game of the library has the installer f.
Expected(f) ==
    \E i \in 1..Len(trove.games) : file_name(trove.games[i].downloads.windows) = f

\* C8: after move_downloads, a file that left the downloads directory was
\* not in root before the call and is in root now with the content it had in
\* downloads; and a file that was in root before the call has the content it
\* had there, its namesake in downloads is as it was, and when that namesake
\* is the installer of a game its path is among those returned.
C8_MoveNeverLosesNorOverwrites ==
    last.op = "move_downloads" =>
        \A f \in LibFiles :
            /\ (exists(last.dlBefore, f) /\ ~exists(dlDir, f)) =>
                    /\ ~exists(last.rootBefore, f)
                    /\ rootDir[f] = last.dlBefore[f]
            /\ exists(last.rootBefore, f) =>
                    /\ rootDir[f] = last.rootBefore[f]
                    /\ dlDir[f] = last.dlBefore[f]
                    /\ (exists(last.dlBefore, f) /\ Expected(f)) =>
                            Returned(StrayPath(f))

\* A move_downloads that found one installer in both directories, left both
\* copies as they were and returned its path, and moved another installer.
C8_Witness ==
    /\ last.op = "move_downloads"
    /\ \E f, g \in LibFiles :
        /\ last.rootBefore[f] = Some("earlier")
        /\ last.dlBefore[f] = Some("installer")
        /\ rootDir[f] = Some("earlier")
        /\ dlDir[f] = Some("installer")
        /\ Returned(StrayPath(f))
        /\ IsNone(last.rootBefore[g])
        /\ last.dlBefore[g] = Some("installer")
        /\ rootDir[g] = Some("installer")
        /\ IsNone(dlDir[g])

\* C9: every path move_downloads returns is of a file that is in the
\* downloads directory when the call returns, and the path of a file the
\* call copied to root and removed from downloads is not returned.
C9_ReturnedAreTheUnmoved ==
    last.op = "move_downloads" =>
        /\ \A i \in 1..Len(last.returned) :
                exists(dlDir, file_name(last.returned[i]))
        /\ \A f \in LibFiles :
                (exists(last.dlBefore, f) /\ ~exists(dlDir, f)) =>
                    ~Returned(StrayPath(f))

\* Some game of games has the machine_name mn.
HasRecord(games, mn) == \E i \in 1..Len(games) : games[i].machine_name = mn

\* C15: a machine_name that has a record in the library has one after every
\* call of add_games, update_download_status, stray_downloads and
\* move_downloads.
C15_RecordsAreKept ==
    [][\A p \in Products :
          HasRecord(trove.games, p.machine_name) =>
              HasRecord(trove'.games, p.machine_name)]_vars

\* An add_games of a feed without a machine_name the library had a record
\* of, which it still has.
C15_Witness ==
    /\ last.op = "add_games"
    /\ Len(last.snapshot) > 0
    /\ \E p \in Products :
          /\ HasRecord(last.before, p.machine_name)
          /\ ~vec_contains(MachineNames(last.snapshot), p.machine_name)
          /\ HasRecord(trove.games, p.machine_name)

\* C16: after add_games of a feed, removed_from_trove is true of the games
\* whose machine_name the feed does not have and false of the others.
C16_RemovedFromTroveFollowsFeed ==
    last.op = "add_games" =>
        \A i \in 1..Len(trove.games) :
            trove.games[i].removed_from_trove =
                ~vec_contains(MachineNames(last.snapshot), trove.games[i].machine_name)

\* The number of games that are marked downloaded.
Downloaded(games) == Cardinality({i \in 1..Len(games) : games[i].downloaded})

\* C17: after update_download_status every game is marked downloaded exactly
\* when its installer is in root, number_downloaded is the number of games so
\* marked and total the number of games; and an update_download_status that
\* follows another, the files being the same, changes nothing of the library.
C17_StatusFollowsRoot ==
    [][last'.op = "update_download_status" =>
        /\ \A i \in 1..Len(trove'.games) :
              trove'.games[i].downloaded =
                  exists(rootDir', file_name(trove'.games[i].downloads.windows))
        /\ trove'.number_downloaded = Downloaded(trove'.games)
        /\ trove'.total = Len(trove'.games)
        /\ (last.op = "update_download_status" => trove' = trove)]_vars

\* An update_download_status that found the installer of one game in root and
\* not that of another.
C17_Witness ==
    /\ last.op = "update_download_status"
    /\ trove.total >= 2
    /\ trove.number_downloaded >= 1
    /\ trove.number_downloaded < trove.total

\* C20: a game is made with installed false, and no call changes installed
\* of a game the library has.
C20_InstalledIsNotTouched ==
    [][/\ Len(trove'.games) >= Len(trove.games)
       /\ \A i \in 1..Len(trove'.games) :
             trove'.games[i].installed =
                 IF i <= Len(trove.games) THEN trove.games[i].installed ELSE FALSE]_vars

\* An update_download_status that marked a game downloaded, after a
\* move_downloads had brought its installer to root.
C20_Witness ==
    /\ last.op = "update_download_status"
    /\ \E i \in 1..Len(trove.games) :
          /\ trove.games[i].downloaded
          /\ ~trove.games[i].installed
          /\ rootDir[file_name(trove.games[i].downloads.windows)] = Some("installer")

\* C18: Trove::new returns an error and no Trove when root or downloads
\* does not exist, and a Trove without games when both do.
C18_NewNeedsBothDirectories ==
    IsSome(made) =>
        IF {made[1].root, made[1].downloads} \subseteq made[1].existing
        THEN /\ made[1].status = "ok"
             /\ IsSome(made[1].trove)
             /\ made[1].trove[1].games = <<>>
        ELSE /\ made[1].status = "err"
             /\ IsNone(made[1].trove)

-----------------------------------------------------------------------------
(* Claims about the diff of two feeds.                                     *)

\* C10: the titles TroveFeed::diff prints as added for (A, B) are those it
\* prints as deleted for (B, A), one by one in the same order, and the other
\* way round.
C10_DiffAntiSymmetric ==
    IsSome(diffOut) =>
        LET d == diffOut[1]
        IN  /\ d.out.new_names = diff(d.older, d.self).old_names
            /\ d.out.old_names = diff(d.older, d.self).new_names

\* A feed sorted newest first was diffed against an older one: two titles
\* added, in an order that is not the alphabetical one, and one deleted.
C10_Witness ==
    /\ IsSome(diffOut)
    /\ diffOut[1].out.new_names = <<"alpha", "Alpha">>
    /\ diffOut[1].out.old_names = <<"Beta">>

-----------------------------------------------------------------------------
(* Claims about the platform of a record.                                  *)

\* The platforms a library takes, the first that a product has being the
\* one chosen.
PlatformPriority == <<"windows", "mac", "linux">>

Present(p) == {i \in 1..Len(PlatformPriority) : PlatformPriority[i] \in DOMAIN p.downloads}

FirstPlatform(p) == PlatformPriority[CHOOSE i \in Present(p) : \A j \in Present(p) : i <= j]

\* C21: the record made for a product has the download of the first platform
\* of the priority list that the product has, and a product with none of
\* them gives an error for that record, the library unchanged.
C21_FirstListedPlatformOrError ==
    last.op = "into" =>
        LET p == last.snapshot[1]
        IN  IF Present(p) = {}
            THEN last.returned = "err" /\ trove.games = last.before
            ELSE /\ last.returned = "ok"
                 /\ trove.games[Len(trove.games)].download_urls
                        = [k \in {FirstPlatform(p)} |-> p.downloads[k]]

\* What the code does keep: a product that has "windows" gets the record of
\* its windows download, and any other product gets no record.
WindowsOrNothing ==
    last.op = "into" =>
        LET p == last.snapshot[1]
        IN  IF "windows" \in DOMAIN p.downloads
            THEN /\ last.returned = "ok"
                 /\ trove.games[Len(trove.games)].download_urls
                        = [windows |-> p.downloads.windows]
            ELSE trove.games = last.before

-----------------------------------------------------------------------------
(* Claims about the invalidation and the retry.                            *)

\* The locators of a feed of n chunks.
FeedLocators(n) == {trove_url} \cup {chunk_url(i) : i \in 0..(n - 1)}

\* The activation of TroveFeed::new that has assembled finds the feed
\* expired and is about to call itself.
FindsExpired == asm.pc = "assembled" /\ asm'.pc = "new"

\* The recursive activation assembles.
Retries == asm.pc = "new" /\ asm'.pc # "new"

\* C22: when an activation finds the feed it assembled expired, the cache
\* then has no entry for the root locator nor for any of the chunks
\* 0..N-1 of that feed, and the retry that follows fetches the root document
\* and every chunk it uses from the network.
C22_ExpiredFeedIsRefetched ==
    [][/\ FindsExpired =>
            \A u \in FeedLocators(chunks(asm.root[1])) : ~exists(files', sha256(u))
       /\ Retries =>
            /\ asm'.pc = "assembled"
            /\ asm'.fetched = FeedLocators(chunks(asm'.root[1]))]_vars

\* A retry has assembled a feed of MaxChunks chunks, all of them fetched.
C22_Witness ==
    /\ asm.pc = "assembled"
    /\ asm.cycles >= 1
    /\ chunks(asm.root[1]) = MaxChunks
    /\ asm.fetched = FeedLocators(MaxChunks)

-----------------------------------------------------------------------------
(* Claims about the de-duplication.                                        *)

\* The products the site gives, in the order they are seen: chunk 0 to chunk
\* N-1, then the newly added list of the root document.
RECURSIVE Concatenated(_)
Concatenated(n) ==
    IF n = 0 THEN <<>> ELSE Concatenated(n - 1) \o remote[chunk_url(n - 1)][1]

SiteOrder ==
    Concatenated(chunks(remote[trove_url][1])) \o remote[trove_url][1].newlyAdded

\* The first product of a list with the machine name.
FirstOf(seen, mn) ==
    seen[CHOOSE i \in 1..Len(seen) :
            /\ seen[i].machine_name = mn
            /\ \A j \in 1..(i - 1) : seen[j].machine_name # mn]

\* C23: the feed holds, for every machine_name that occurs in the chunks or
\* in the newly added list, the first product seen with it and no other: no
\* name is lost, none is held twice, and a later product never takes the
\* place of an earlier one.
C23_FirstSeenWinsNothingLost ==
    IsSome(feed) =>
        LET ps == products(feed[1])
        IN  /\ NoRepeat(MachineNames(ps))
            /\ {ps[i] : i \in 1..Len(ps)}
                 = {FirstOf(SiteOrder, SiteOrder[k].machine_name) : k \in 1..Len(SiteOrder)}

\* A feed assembled from a chunk with G1, a later chunk with G3 under the
\* same machine name, and a newly added G2 that no chunk has: G1 and G2 are
\* kept.
C23_Witness ==
    /\ IsSome(feed)
    /\ asm.status = "ok"
    /\ remote[chunk_url(0)][1] = <<G1>>
    /\ remote[chunk_url(1)][1] = <<G3, G1>>
    /\ remote[trove_url][1].newlyAdded = <<G2>>
    /\ {products(feed[1])[i] : i \in 1..Len(products(feed[1]))} = {G1, G2}

-----------------------------------------------------------------------------
(* Claims about failures while moving downloads.                           *)

\* The ways fs::copy fails, and the ways it succeeds.
CopyFails == {"copy_err", "copy_truncated"}

CopySucceeds == {"ok", "remove_err"}

\* The installers of the games are all different.
DistinctInstallers ==
    \A i, j \in 1..Len(trove.games) :
        i # j => trove.games[i].downloads.windows # trove.games[j].downloads.windows

\* What a move_downloads whose copies and removals end as outcome says leaves
\* behind, for the stray files whose destination was absent: one whose copy
\* failed is returned and is in downloads as it was, and one whose copy
\* succeeded is in root with the content it had in downloads.
PerItem(outcome) ==
    LET strays == stray_downloads(trove, dlDir)
    IN  \A i \in 1..Len(strays) :
            LET name == file_name(strays[i])
            IN  ~exists(rootDir, name) =>
                    /\ outcome[i] \in CopyFails =>
                          /\ \E k \in 1..Len(last'.returned) : last'.returned[k] = strays[i]
                          /\ dlDir'[name] = dlDir[name]
                    /\ outcome[i] \in CopySucceeds =>
                          rootDir'[name] = dlDir[name]

\* C24: in a move_downloads, a stray file whose copy fails is returned and
\* its source is untouched, and every other stray file whose destination is
\* absent and whose copy succeeds is moved to root in the same call.
C24_FailureIsPerItem ==
    [][\A outcome \in [1..Len(stray_downloads(trove, dlDir)) -> Outcomes] :
            MoveDownloads(outcome) => PerItem(outcome)]_vars

\* The same of a library whose games have different installers.
PerItemDistinct ==
    [][\A outcome \in [1..Len(stray_downloads(trove, dlDir)) -> Outcomes] :
            (DistinctInstallers /\ MoveDownloads(outcome)) => PerItem(outcome)]_vars

-----------------------------------------------------------------------------
(* Claims about a move that is killed.                                     *)

\* C25: an installer that a killed move_downloads had copied and not yet
\* removed is in root and in downloads, whole; an update_download_status
\* made afterwards sets downloaded on the records the library has of it, and
\* a move_downloads made afterwards leaves both copies as they were and
\* returns its path when the library has a record of it.
C25_KilledMoveLeavesBothCopies ==
    \A f \in crashed :
        /\ rootDir[f] = Some("installer")
        /\ dlDir[f] = Some("installer")
        /\ last.op = "update_download_status" =>
                \A i \in 1..Len(trove.games) :
                    file_name(trove.games[i].downloads.windows) = f =>
                        trove.games[i].downloaded
        /\ last.op = "move_downloads" =>
                /\ Expected(f) => Returned(StrayPath(f))
                /\ rootDir[f] = last.rootBefore[f]
                /\ dlDir[f] = last.dlBefore[f]

\* A move_downloads was killed on an installer, and in a process started
\* afterwards update_download_status has set downloaded on a record of it
\* that did not have it.
C25_Witness ==
    /\ last.op = "update_download_status"
    /\ \E f \in crashed :
          \E i \in 1..Len(trove.games) :
              /\ file_name(trove.games[i].downloads.windows) = f
              /\ ~last.before[i].downloaded
              /\ trove.games[i].downloaded

-----------------------------------------------------------------------------
(* Claims about the coherence of a feed.                                   *)

\* C26: the chunks used in a feed that TroveFeed::new returned were each
\* fetched no earlier than the root document used in it.
C26_SnapshotIsCoherent ==
    (asm.status = "ok" /\ IsSome(feed)) =>
        \A i \in 0..(chunks(Doc(feed[1])) - 1) : chunk_url(i) \notin stale

-----------------------------------------------------------------------------
(* Claims about writes to the cache that fail.                             *)

\* C27: the bytes a retrieve returns are a whole payload of the locator, and
\* the entry they are read from is one that a retrieve wrote in full, blob
\* and sidecar.
C27_OnlyWholePayloads ==
    (ret.op = "retrieve" /\ ret.status = "ok") =>
        /\ ret.bytes[1] \in Payloads
        /\ files[url_file(sha256(ret.url))] = Some(ret.url)

\* The bytes a retrieve returns are a whole payload.
NoTruncatedBytes ==
    (ret.op = "retrieve" /\ ret.status = "ok") => ret.bytes[1] \in Payloads

=============================================================================
